---- MODULE Spec2Model ----
(***************************************************************************)
(* Model of the live synchronisation pipeline of manifold-aggr:            *)
(*   src/src/workers.py   ManifoldAPIWebsocketHandler (session, keepalive, *)
(*                        dispatcher)                                      *)
(*   src/src/database.py  Database (the market store)                      *)
(*   src/src/market.py    Market, get_embeddings                           *)
(*                                                                         *)
(* Three specifications share the definitions below:                      *)
(*   Spec      one handler: run() invocations, the keepalive task, the     *)
(*             dispatch tasks and the store they update;                   *)
(*   DbSpec    the store operations and handle_message applied to frames   *)
(*             and store contents drawn from bounded sets;                 *)
(*   SendSpec  concurrent callers of ManifoldAPIWebsocketHandler.send.     *)
(*                                                                         *)
(* Python's None is the empty sequence and a present value v is <<v>>, so  *)
(* that `x is None` is x = None for values of any type.                    *)
(***************************************************************************)
EXTENDS Integers, Sequences, FiniteSets, TLC

VARIABLES
    \* ---- ManifoldAPIWebsocketHandler fields (workers.py:30-35)
    running,        \* self.running
    connOpen,       \* self.connection.open
    subscribed,     \* a subscribe frame was written on the current connection
    txid,           \* self.txid
    txid_lock,      \* holder of self.txid_lock, None when free
    sent,           \* frames written to the transport, in transport order
    \* ---- run() invocations (workers.py:72-129)
    pc,             \* position of each invocation of run()
    attempts,       \* connect attempts of the reconnect episode in progress or
                    \* just ended, 0 once run() has gone on
    ended,          \* why an invocation ended
    subTxid,        \* subscribe frame formatted by send(), not yet written
    handler_task,   \* local handler_task: index into tasks, 0 for the placeholder
    \* ---- keepalive tasks (workers.py:131-149)
    ping,           \* position of the ping task each invocation created
    pingTxid,       \* ping frame formatted by send(), not yet written
    \* ---- dispatch tasks (workers.py:103, 151-182)
    tasks,          \* every task created for handle_message, in creation order
    \* ---- Database (database.py)
    markets,        \* rows of table markets
    index_exists,   \* idx_embedding exists
    bulk,           \* number of further rows of markets, not tracked one by one
    dbOp,           \* the last store operation, its arguments and its outcome
    \* ---- concurrent callers of send() (workers.py:49-55)
    sender,         \* position of each caller inside send()
    \* ---- get_embeddings (market.py:37-56)
    market_list,    \* the argument markets
    loop_i,         \* i, the index the for loop has reached
    ii,             \* index of the first market not yet sent for embedding
    culmulative_tokens, \* tokens of the markets counted since the last flush
    calls,          \* the arguments of get_embeddings_single, in call order
    res,            \* the embeddings collected so far
    epc             \* "idle", "loop", "returned" or "assert_failed"

vars == <<running, connOpen, subscribed, txid, txid_lock, sent, pc, attempts,
          ended, subTxid, handler_task, ping, pingTxid, tasks, markets,
          index_exists, bulk, dbOp, sender, market_list, loop_i, ii,
          culmulative_tokens, calls, res, epc>>

sessionVars == <<running, connOpen, subscribed, txid, txid_lock, sent, pc,
                 attempts, ended, subTxid, handler_task, ping, pingTxid, tasks>>

storeVars == <<markets, index_exists, bulk, dbOp>>

batchVars == <<market_list, loop_i, ii, culmulative_tokens, calls, res, epc>>

None == <<>>

Some(v) == <<v>>

(***************************************************************************)
(* Market records and the markets table                                    *)
(***************************************************************************)

\* database.py:44 id TEXT PRIMARY KEY; the ids the model tracks one by one
Ids == {"A", "B"}

Titles == {"t1", "t2"}

\* probability FLOAT; 0 stands for 0.0, a falsy value in Python
Probabilities == {0, 1}

\* embedding VECTOR(1536) NULL
Embeddings == {None, Some("e1")}

\* market.py:8-12
Market == [title : Titles, probability : Probabilities, embedding : Embeddings]

\* database.py:41-50
Row == [id : Ids, title : Titles, probability : Probabilities, embedding : Embeddings]

\* database.py:58 and :104, market.embedding.tolist() if not None else None
EmbeddingToList(embedding) == IF embedding = None THEN None ELSE Some(embedding[1])

\* database.py:72, np.array(result[2]) if result[2] is not None else None
EmbeddingFromRow(column) == IF column = None THEN None ELSE Some(column[1])

RowOf(idd, market) ==
    [id |-> idd, title |-> market.title, probability |-> market.probability,
     embedding |-> EmbeddingToList(market.embedding)]

RowsWithId(idd, table) == {row \in table : row.id = idd}

\* an INSERT into a table whose id is no key
PrimaryKeyViolated_NoKey(idd, table) == FALSE

\* database.py:44, the PRIMARY KEY constraint checked by INSERT
PrimaryKeyViolated(idd, table) == RowsWithId(idd, table) # {}

\* errors that are instances of psycopg2.Error
Psycopg2Errors == {"UniqueViolation"}

\* database.py:8-16: on psycopg2.Error roll back to the committed table and
\* re-raise; any other exception passes through
db_error_handler(result, table) ==
    IF result.raised \in Psycopg2Errors
    THEN [result EXCEPT !.markets = table]
    ELSE result

\* database.py:74-78
get_num_markets(table, others) == Cardinality(table) + others

\* database.py:82
IndexThreshold == 10000

\* database.py:92-94: CREATE INDEX IF NOT EXISTS builds idx_embedding when the
\* check gets past the threshold and there is no such index
index_created(table, others, index) ==
    get_num_markets(table, others) >= IndexThreshold /\ ~index

\* a maintenance check that starts one row too late
optimize_embeddings_Above(table, others, index) ==
    IF get_num_markets(table, others) <= IndexThreshold
    THEN index
    ELSE TRUE

\* database.py:80-98: the index after the maintenance check
optimize_embeddings(table, others, index) ==
    IF get_num_markets(table, others) < IndexThreshold
    THEN index
    ELSE TRUE

\* database.py:54-61
add_market(idd, market, table) ==
    db_error_handler(
        IF PrimaryKeyViolated(idd, table)
        THEN [raised |-> "UniqueViolation", markets |-> table]
        ELSE [raised |-> "none", markets |-> table \cup {RowOf(idd, market)}],
        table)

\* database.py:63-72; cursor.fetchone() is one of the selected rows
get_market(idd, table) ==
    LET result == RowsWithId(idd, table) IN
    IF result = {}
    THEN [raised |-> "KeyError", market |-> None]
    ELSE LET row == CHOOSE r \in result : TRUE IN
         [raised |-> "none",
          market |-> Some([title |-> row.title, probability |-> row.probability,
                           embedding |-> EmbeddingFromRow(row.embedding)])]

\* database.py:100-106: UPDATE ... WHERE id = %s changes the rows with that id
\* and none when there is none
update_market(idd, market, table) ==
    db_error_handler(
        [raised |-> "none",
         markets |-> {IF row.id = idd THEN RowOf(idd, market) ELSE row : row \in table}],
        table)

\* database.py:108-114
delete_market(idd, table) ==
    db_error_handler(
        [raised |-> "none", markets |-> {row \in table : row.id # idd}],
        table)

(***************************************************************************)
(* Inbound frames and the dispatcher                                       *)
(***************************************************************************)

\* workers.py:85 and :159
Topic == "global/updated-contract"

\* data["data"] of a decoded frame: the key is absent, or its value is null
\* or another non-object, or it is an object whose id, question and
\* probability are None when absent or null (dict.get)
Payloads ==
    {[kind |-> "absent", id |-> None, question |-> None, probability |-> None],
     [kind |-> "null", id |-> None, question |-> None, probability |-> None]}
    \cup [kind : {"object"},
          id : {None} \cup {Some(i) : i \in Ids},
          question : {None} \cup {Some(t) : t \in Titles},
          probability : {None} \cup {Some(p) : p \in Probabilities}]

NoPayload == [kind |-> "absent", id |-> None, question |-> None, probability |-> None]

\* A text frame: not JSON at all ("garbage"), JSON that is no object
\* ("scalar": a number, a string, a list, null), or a JSON object with its
\* type, topic and data members
Frames ==
    {[kind |-> "garbage", type |-> None, topic |-> None, data |-> NoPayload],
     [kind |-> "scalar", type |-> None, topic |-> None, data |-> NoPayload]}
    \cup [kind : {"object"},
          type : {Some("broadcast"), Some("ack")},
          topic : {Some(Topic), Some("global/other")},
          data : Payloads]

\* workers.py:152-156: json.loads raises JSONDecodeError on text that is not JSON
JsonDecodeFails(message) == message.kind = "garbage"

\* dict.get on the value json.loads returned: AttributeError unless it is a dict
IsDict(value) == value.kind = "object"

\* workers.py:175-176
ApplyTitle(market, title) ==
    IF title # None THEN [market EXCEPT !.title = title[1]] ELSE market

\* `if probability:` in place of `if probability is not None:`
ApplyProbability_Truthy(market, probability) ==
    IF probability # None /\ probability[1] # 0
    THEN [market EXCEPT !.probability = probability[1]]
    ELSE market

\* workers.py:177-178
ApplyProbability(market, probability) ==
    IF probability # None THEN [market EXCEPT !.probability = probability[1]] ELSE market

\* workers.py:171-174: the market handle_message goes on with, None when it
\* returns at "not found"
FoundMarket(got) == IF got.market = None THEN None ELSE got.market

\* workers.py:151-182: the exception handle_message ends with ("none" when
\* it returns) and the table it leaves
handle_message(message, table) ==
    IF JsonDecodeFails(message)
    THEN [raised |-> "none", markets |-> table]
    ELSE IF ~IsDict(message)
    THEN [raised |-> "AttributeError", markets |-> table]
    ELSE IF message.type # Some("broadcast")
    THEN [raised |-> "none", markets |-> table]
    ELSE IF message.topic # Some(Topic)
    THEN [raised |-> "none", markets |-> table]
    ELSE IF message.data.kind = "absent"
    THEN [raised |-> "none", markets |-> table]
    ELSE IF ~IsDict(message.data)
    THEN [raised |-> "AttributeError", markets |-> table]
    ELSE LET payload == message.data
             title == payload.question
             probability == payload.probability
             idd == payload.id
         IN  IF idd = None
             THEN [raised |-> "none", markets |-> table]
             ELSE LET got == get_market(idd[1], table) IN
                  IF got.raised # "none"
                  THEN [raised |-> got.raised, markets |-> table]
                  ELSE IF FoundMarket(got) = None
                  THEN [raised |-> "none", markets |-> table]
                  ELSE update_market(
                           idd[1],
                           ApplyProbability(ApplyTitle(FoundMarket(got)[1], title),
                                            probability),
                           table)

(***************************************************************************)
(* DbSpec: the store operations and the dispatcher, one call per step      *)
(***************************************************************************)

\* rows of markets that are not tracked one by one: none, or one fewer than
\* the index threshold of optimize_embeddings
BulkCounts == {0, IndexThreshold - 1}

NoOp ==
    [op |-> "none", id |-> None, market |-> None, frame |-> None,
     embedding |-> None, limit |-> None,
     raised |-> "none", result |-> None, before |-> {},
     index_before |-> FALSE, built |-> FALSE]

\* get_embeddings is not called
IdleBatch ==
    /\ market_list = <<>>
    /\ loop_i = 0
    /\ ii = 0
    /\ culmulative_tokens = 0
    /\ calls = <<>>
    /\ res = <<>>
    /\ epc = "idle"

IdleSession ==
    /\ running = FALSE
    /\ connOpen = FALSE
    /\ subscribed = FALSE
    /\ txid = 0
    /\ txid_lock = None
    /\ sent = <<>>
    /\ pc = <<>>
    /\ attempts = <<>>
    /\ ended = <<>>
    /\ subTxid = <<>>
    /\ handler_task = <<>>
    /\ ping = <<>>
    /\ pingTxid = <<>>
    /\ tasks = <<>>

\* a table as reset_safe and add_market leave it: at most one row per id
DbInit ==
    /\ IdleSession
    /\ IdleBatch
    /\ sender = <<>>
    /\ markets \in {table \in SUBSET Row :
                      /\ \A i \in Ids : Cardinality(RowsWithId(i, table)) <= 1
                      /\ \A row \in table : row.title = "t1" /\ row.embedding # None}
    /\ bulk \in BulkCounts
    /\ index_exists = optimize_embeddings(markets, bulk, FALSE)
    /\ dbOp = NoOp

\* database.py:54-61
AddMarket(idd, market) ==
    LET r == add_market(idd, market, markets) IN
    /\ markets' = r.markets
    /\ index_exists' = IF r.raised = "none"
                       THEN optimize_embeddings(r.markets, bulk, index_exists)
                       ELSE index_exists
    /\ dbOp' = [NoOp EXCEPT !.op = "add_market", !.id = Some(idd),
                            !.market = Some(market), !.raised = r.raised,
                            !.before = markets,
                            !.index_before = index_exists,
                            !.built = /\ r.raised = "none"
                                      /\ index_created(r.markets, bulk, index_exists)]
    /\ UNCHANGED <<bulk, sender>>
    /\ UNCHANGED sessionVars
    /\ UNCHANGED batchVars

\* database.py:63-72
GetMarket(idd) ==
    LET r == get_market(idd, markets) IN
    /\ dbOp' = [NoOp EXCEPT !.op = "get_market", !.id = Some(idd),
                            !.raised = r.raised, !.result = r.market,
                            !.before = markets,
                            !.index_before = index_exists]
    /\ UNCHANGED <<markets, index_exists, bulk, sender>>
    /\ UNCHANGED sessionVars
    /\ UNCHANGED batchVars

\* database.py:100-106
UpdateMarket(idd, market) ==
    LET r == update_market(idd, market, markets) IN
    /\ markets' = r.markets
    /\ dbOp' = [NoOp EXCEPT !.op = "update_market", !.id = Some(idd),
                            !.market = Some(market), !.raised = r.raised,
                            !.before = markets,
                            !.index_before = index_exists]
    /\ UNCHANGED <<index_exists, bulk, sender>>
    /\ UNCHANGED sessionVars
    /\ UNCHANGED batchVars

\* database.py:108-114
DeleteMarket(idd) ==
    LET r == delete_market(idd, markets) IN
    /\ markets' = r.markets
    /\ dbOp' = [NoOp EXCEPT !.op = "delete_market", !.id = Some(idd),
                            !.raised = r.raised, !.before = markets,
                            !.index_before = index_exists]
    /\ UNCHANGED <<index_exists, bulk, sender>>
    /\ UNCHANGED sessionVars
    /\ UNCHANGED batchVars

\* workers.py:151-182, one dispatch run to its end
HandleMessage(message) ==
    LET r == handle_message(message, markets) IN
    /\ markets' = r.markets
    /\ dbOp' = [NoOp EXCEPT !.op = "handle_message", !.frame = Some(message),
                            !.raised = r.raised, !.before = markets,
                            !.index_before = index_exists]
    /\ UNCHANGED <<index_exists, bulk, sender>>
    /\ UNCHANGED sessionVars
    /\ UNCHANGED batchVars

DbNext ==
    \/ \E idd \in Ids, market \in Market : AddMarket(idd, market)
    \/ \E idd \in Ids : GetMarket(idd)
    \/ \E idd \in Ids, market \in Market : UpdateMarket(idd, market)
    \/ \E idd \in Ids : DeleteMarket(idd)
    \/ \E message \in Frames : HandleMessage(message)

DbSpec == DbInit /\ [][DbNext]_vars

(***************************************************************************)
(* Claims about the dispatcher and the store (DbSpec)                      *)
(***************************************************************************)

\* workers.py:158-159: a broadcast on the subscribed topic
IsBroadcastOnTopic(message) ==
    /\ message.kind = "object"
    /\ message.type = Some("broadcast")
    /\ message.topic = Some(Topic)

\* workers.py:158-170: a frame handle_message goes to the store with
IsActionable(message) ==
    /\ IsBroadcastOnTopic(message)
    /\ message.data.kind = "object"
    /\ message.data.id # None

Dispatched == dbOp.op = "handle_message"

DispatchedFrame == dbOp.frame[1]

OtherRows(idd, table) == {row \in table : row.id # idd}

\* C7: a broadcast on the subscribed topic whose id is not in the store is
\* discarded: the dispatch raises nothing and leaves the table as it was.
C7_UnknownIdDiscarded ==
    (/\ Dispatched
     /\ IsActionable(DispatchedFrame)
     /\ RowsWithId(DispatchedFrame.data.id[1], dbOp.before) = {})
    => (dbOp.raised = "none" /\ markets = dbOp.before)

\* C8: a dispatched broadcast for a known id sets the title only when the
\* payload has a question and the probability only when it has one, keeps
\* the embedding of the record and keeps every other row.
C8_PresentFieldsOnly ==
    (/\ Dispatched
     /\ IsActionable(DispatchedFrame)
     /\ RowsWithId(DispatchedFrame.data.id[1], dbOp.before) # {})
    => LET payload == DispatchedFrame.data
           idd == payload.id[1]
           old == CHOOSE row \in dbOp.before : row.id = idd
       IN  /\ dbOp.raised = "none"
           /\ OtherRows(idd, markets) = OtherRows(idd, dbOp.before)
           /\ RowsWithId(idd, markets) =
                 {[id |-> idd,
                   title |-> IF payload.question = None
                             THEN old.title ELSE payload.question[1],
                   probability |-> IF payload.probability = None
                                   THEN old.probability ELSE payload.probability[1],
                   embedding |-> old.embedding]}

\* a probability-only broadcast for a known id changed that probability
C8_Witness ==
    /\ Dispatched
    /\ IsActionable(DispatchedFrame)
    /\ DispatchedFrame.data.question = None
    /\ DispatchedFrame.data.probability # None
    /\ \E old \in dbOp.before :
          /\ old.id = DispatchedFrame.data.id[1]
          /\ old.probability # DispatchedFrame.data.probability[1]
          /\ old.embedding # None
    /\ markets # dbOp.before

\* C9: a frame that is not actionable is dropped: the dispatch raises
\* nothing and leaves the table as it was.
C9_NotActionableDropped ==
    (Dispatched /\ ~IsActionable(DispatchedFrame))
    => (dbOp.raised = "none" /\ markets = dbOp.before)

\* C10: the table never holds two rows for one id; add_market with an id
\* that is present fails and leaves the table as it was, and with an id that
\* is absent stores exactly the record it was given.
C10_AddKeepsIdsUnique ==
    /\ \A idd \in Ids : Cardinality(RowsWithId(idd, markets)) <= 1
    /\ dbOp.op = "add_market" =>
          LET idd == dbOp.id[1] IN
          IF RowsWithId(idd, dbOp.before) # {}
          THEN dbOp.raised = "UniqueViolation" /\ markets = dbOp.before
          ELSE /\ dbOp.raised = "none"
               /\ get_market(idd, markets).market = dbOp.market
               /\ OtherRows(idd, markets) = dbOp.before

\* add_market was refused for an id whose stored record differs from the one given
C10_Witness ==
    /\ dbOp.op = "add_market"
    /\ dbOp.raised = "UniqueViolation"
    /\ get_market(dbOp.id[1], markets).market # dbOp.market
    /\ markets = dbOp.before

\* C11: update_market(id, record) for an id that is not stored fails with a
\* not-found error and leaves the table as it was; for a stored id it
\* replaces the fields of that record and changes no other record.
C11_UpdateMissingIdFails ==
    dbOp.op = "update_market" =>
        IF RowsWithId(dbOp.id[1], dbOp.before) = {}
        THEN /\ dbOp.raised # "none"
             /\ markets = dbOp.before
        ELSE /\ dbOp.raised = "none"
             /\ RowsWithId(dbOp.id[1], markets) = {RowOf(dbOp.id[1], dbOp.market[1])}
             /\ OtherRows(dbOp.id[1], markets) = OtherRows(dbOp.id[1], dbOp.before)

\* C18: idx_embedding is built only by the maintenance check of an add that
\* succeeds and leaves at least IndexThreshold rows: while the table cannot
\* have reached the threshold there is no index; after every such add the
\* index exists; no operation builds it when it exists already, and none
\* removes it.
C18_IndexBuiltOnceByAdd ==
    /\ bulk + Cardinality(Ids) < IndexThreshold => ~index_exists
    /\ (/\ dbOp.op = "add_market"
        /\ dbOp.raised = "none"
        /\ get_num_markets(markets, bulk) >= IndexThreshold) => index_exists
    /\ dbOp.built =>
          /\ dbOp.op = "add_market"
          /\ dbOp.raised = "none"
          /\ get_num_markets(markets, bulk) >= IndexThreshold
          /\ ~dbOp.index_before
          /\ index_exists
    /\ (dbOp.op # "none" /\ ~dbOp.built) => index_exists = dbOp.index_before

\* an add has just brought the table to the threshold and built the index
C18_Witness ==
    /\ dbOp.op = "add_market"
    /\ dbOp.built
    /\ get_num_markets(dbOp.before, bulk) = IndexThreshold - 1
    /\ get_num_markets(markets, bulk) = IndexThreshold
    /\ index_exists

(***************************************************************************)
(* NearestSpec: get_markets_by_embedding on a small table                  *)
(***************************************************************************)

NearestIds == {"A", "B", "C"}

\* embeddings told apart by name; a vector of two coordinates stands for
\* the VECTOR(1536) of database.py:47
VectorNames == {"e1", "e2", "e3"}

VectorOf(name) ==
    CASE name = "e1" -> <<1, 0>>
      [] name = "e2" -> <<0, 1>>
      [] name = "e3" -> <<1, 1>>

\* largest LIMIT of a query
MaxLimit == 2

\* the rows of the tables of NearestSpec
NearestRow ==
    [id : NearestIds, title : {"t1"}, probability : {0},
     embedding : {None} \cup {Some(name) : name \in VectorNames}]

\* database.py:119, the operator <#> of the vector extension: the negative
\* inner product, NULL when the stored embedding is NULL
NegativeInnerProduct(column, query) ==
    IF column = None
    THEN None
    ELSE LET u == VectorOf(column[1])
             v == VectorOf(query) IN
         Some(0 - (u[1] * v[1] + u[2] * v[2]))

\* ORDER BY ... (ascending, NULLS LAST): row a may stand before row b
MayPrecede(a, b, query) ==
    LET da == NegativeInnerProduct(a.embedding, query)
        db == NegativeInnerProduct(b.embedding, query) IN
    IF da = None THEN db = None
    ELSE IF db = None THEN TRUE
    ELSE da[1] <= db[1]

\* the orders ORDER BY embedding <#> query may give the rows; rows at the
\* same distance come in any order
OrderBy(rows, query) ==
    {s \in [1..Cardinality(rows) -> rows] :
        /\ \A j, k \in DOMAIN s : j # k => s[j] # s[k]
        /\ \A j, k \in DOMAIN s : j < k => MayPrecede(s[j], s[k], query)}

\* LIMIT
Limit(s, limit) == SubSeq(s, 1, IF limit < Len(s) THEN limit ELSE Len(s))

\* an index built for the operator of the query
IndexOperatorClass_InnerProduct == "vector_ip_ops"

\* database.py:93, CREATE INDEX ... USING ivfflat (embedding vector_cosine_ops)
IndexOperatorClass == "vector_cosine_ops"

\* the operator an operator class of the vector extension can order by
OrderingOperator(opclass) ==
    CASE opclass = "vector_cosine_ops" -> "<=>"
      [] opclass = "vector_ip_ops" -> "<#>"
      [] opclass = "vector_l2_ops" -> "<->"

\* the planner answers ORDER BY embedding <#> query from idx_embedding only
\* when the index exists and its operator class orders by <#>
UsesIndex(index) == index /\ OrderingOperator(IndexOperatorClass) = "<#>"

\* the rows a scan hands to ORDER BY: all of them without the index; with
\* the ivfflat index the rows of the lists probed, which hold embeddings only
RowsScanned(table, index) ==
    IF UsesIndex(index)
    THEN SUBSET {row \in table : row.embedding # None}
    ELSE {table}

\* database.py:116-127: the possible outcomes.  embedding.tolist() reaches
\* the server as an array; whether <#> takes an array as its right operand
\* depends on the casts of the installed vector extension, which the source
\* does not fix, so the query either is refused or is run.  The result is
\* the dict markets in insertion order, one entry for each row fetched.
get_markets_by_embedding(embedding, limit, table, index) ==
    {[raised |-> "UndefinedFunction", result |-> <<>>]}
    \cup
    {[raised |-> "none",
      result |-> [k \in DOMAIN s |->
                    [id |-> s[k].id,
                     market |-> [title |-> s[k].title,
                                 probability |-> s[k].probability,
                                 embedding |-> EmbeddingFromRow(s[k].embedding)]]]] :
        s \in UNION {{Limit(o, limit) : o \in OrderBy(rows, embedding)} :
                       rows \in RowsScanned(table, index)}}

\* a table with at most one row for each id; idx_embedding outlives the
\* deletes that bring the table back under the threshold, so it may exist
NearestInit ==
    /\ IdleSession
    /\ IdleBatch
    /\ sender = <<>>
    /\ markets \in {table \in SUBSET NearestRow :
                      \A i \in NearestIds : Cardinality(RowsWithId(i, table)) <= 1}
    /\ bulk = 0
    /\ index_exists \in BOOLEAN
    /\ dbOp = NoOp

\* database.py:116-127
GetMarketsByEmbedding(embedding, limit) ==
    \E r \in get_markets_by_embedding(embedding, limit, markets, index_exists) :
        /\ dbOp' = [NoOp EXCEPT !.op = "get_markets_by_embedding",
                                !.embedding = Some(embedding), !.limit = Some(limit),
                                !.raised = r.raised, !.result = Some(r.result),
                                !.before = markets, !.index_before = index_exists]
        /\ UNCHANGED <<markets, index_exists, bulk, sender>>
        /\ UNCHANGED sessionVars
        /\ UNCHANGED batchVars

NearestNext ==
    \E embedding \in VectorNames, limit \in 0..MaxLimit :
        GetMarketsByEmbedding(embedding, limit)

NearestSpec == NearestInit /\ [][NearestNext]_vars

\* the row of the table a result entry was fetched from
RowFetched(entry, table) == CHOOSE row \in table : row.id = entry.id

NumRuns == 2

\* dispatch tasks created over the life of the handler
MaxTasks == 2

\* transaction ids the keepalive task may use up
MaxTxid == 3

\* workers.py:107, for _ in range(5)
MaxRetries == 5

Runs == 1..NumRuns

\* the frames the server sends while the session listens: updates of market A
SessionFrames ==
    {[kind |-> "object", type |-> Some("broadcast"), topic |-> Some(Topic),
      data |-> [kind |-> "object", id |-> Some("A"), question |-> None,
                probability |-> Some(1)]]}

LivePing == {"loop", "write"}

\* an allocation that hands out the current txid again
AllocateTxid_Reuse == txid

\* workers.py:52-54: the txid send() allocates; txid_lock is taken and
\* released around it with no await in between, so it is free again when
\* the step ends
AllocateTxid == txid + 1

\* a transport that takes a frame whether or not the connection is open
TransportWrite_Blind(frame) == Append(sent, frame)

\* workers.py:55, await self.connection.send(message_): the frames the
\* transport has taken once the await returns or raises ConnectionClosed
TransportWrite(frame) == IF connOpen THEN Append(sent, frame) ELSE sent

Init ==
    /\ IdleBatch
    /\ running = FALSE
    /\ connOpen = FALSE
    /\ subscribed = FALSE
    /\ txid = 0
    /\ txid_lock = None
    /\ sent = <<>>
    /\ pc = [r \in Runs |-> "idle"]
    /\ attempts = [r \in Runs |-> 0]
    /\ ended = [r \in Runs |-> "none"]
    /\ subTxid = [r \in Runs |-> 0]
    /\ handler_task = [r \in Runs |-> 0]
    /\ ping = [r \in Runs |-> "none"]
    /\ pingTxid = [r \in Runs |-> 0]
    /\ tasks = <<>>
    /\ markets = {[id |-> "A", title |-> "t1", probability |-> 0,
                   embedding |-> Some("e1")]}
    /\ index_exists = FALSE
    /\ bulk = 0
    /\ dbOp = NoOp
    /\ sender = <<>>

\* run() without its guard
AlreadyRunning_Never == FALSE

\* workers.py:73, the re-entrancy guard
AlreadyRunning == running

\* disconnect() that leaves the connection as it is
disconnect_NoClose(open) == open

\* workers.py:42-47: connection.open after disconnect()
disconnect(open) == IF open THEN FALSE ELSE open

\* range(6) in place of range(5)
RetriesLeft_OneMore(n) == n <= MaxRetries

\* workers.py:107 and :116: another attempt follows n failed ones
RetriesLeft(n) == n < MaxRetries

\* Task.cancel() on handler_task: a task that has not run yet never runs
CancelTask(h) ==
    IF h = 0
    THEN tasks
    ELSE [tasks EXCEPT ![h].status = IF @ = "pending" THEN "cancelled" ELSE @]

\* workers.py:126-129; the local handler_task ends with run()
Terminate(r, cause) ==
    /\ ping' = [ping EXCEPT ![r] = IF @ \in LivePing THEN "cancelled" ELSE @]
    /\ pingTxid' = [pingTxid EXCEPT ![r] = 0]
    /\ tasks' = CancelTask(handler_task[r])
    /\ handler_task' = [handler_task EXCEPT ![r] = 0]
    /\ running' = FALSE
    /\ pc' = [pc EXCEPT ![r] = "done"]
    /\ ended' = [ended EXCEPT ![r] = cause]

\* workers.py:72-77: run() is called; it returns at the guard or goes on to
\* await connect()
CallRun(r) ==
    /\ pc[r] = "idle"
    /\ \A q \in Runs : q < r => pc[q] # "idle"
    /\ IF AlreadyRunning
       THEN /\ pc' = [pc EXCEPT ![r] = "done"]
            /\ ended' = [ended EXCEPT ![r] = "rejected"]
            /\ UNCHANGED running
       ELSE /\ running' = TRUE
            /\ pc' = [pc EXCEPT ![r] = "connect"]
            /\ UNCHANGED ended
    /\ UNCHANGED <<connOpen, subscribed, txid, txid_lock, sent, attempts, subTxid,
                   handler_task, ping, pingTxid, tasks, sender>>
    /\ UNCHANGED storeVars
    /\ UNCHANGED batchVars

\* workers.py:77-88 with :37-40 and :49-54: connect() returns an open
\* connection and send() allocates the txid of the subscribe frame, up to
\* await connection.send
ConnectOk(r) ==
    /\ pc[r] = "connect"
    /\ connOpen' = TRUE
    /\ subscribed' = FALSE
    /\ txid' = AllocateTxid
    /\ txid_lock' = None
    /\ subTxid' = [subTxid EXCEPT ![r] = AllocateTxid]
    /\ pc' = [pc EXCEPT ![r] = "sub_write"]
    /\ UNCHANGED <<running, sent, attempts, ended, handler_task, ping,
                   pingTxid, tasks, sender>>
    /\ UNCHANGED storeVars
    /\ UNCHANGED batchVars

\* workers.py:77 with :37-40: connect() raises and run() with it
ConnectFail(r) ==
    /\ pc[r] = "connect"
    /\ pc' = [pc EXCEPT ![r] = "raised"]
    /\ ended' = [ended EXCEPT ![r] = "connect_failed"]
    /\ UNCHANGED <<running, connOpen, subscribed, txid, txid_lock, sent, attempts,
                   subTxid, handler_task, ping, pingTxid, tasks, sender>>
    /\ UNCHANGED storeVars
    /\ UNCHANGED batchVars

\* workers.py:55 then :89-90: the subscribe frame is written and run() waits
\* for the first frame, or the write raises ConnectionClosed and run() with it
SubscribeWrite(r) ==
    /\ pc[r] = "sub_write"
    /\ IF connOpen
       THEN /\ sent' = TransportWrite([type |-> "subscribe", txid |-> subTxid[r]])
            /\ subscribed' = TRUE
            /\ pc' = [pc EXCEPT ![r] = "ack"]
            /\ UNCHANGED ended
       ELSE /\ pc' = [pc EXCEPT ![r] = "raised"]
            /\ ended' = [ended EXCEPT ![r] = "send_failed"]
            /\ UNCHANGED <<sent, subscribed>>
    /\ subTxid' = [subTxid EXCEPT ![r] = 0]
    /\ UNCHANGED <<running, connOpen, txid, txid_lock, attempts, handler_task, ping,
                   pingTxid, tasks, sender>>
    /\ UNCHANGED storeVars
    /\ UNCHANGED batchVars

\* workers.py:90-101: a frame arrives within the timeout; the ping task is
\* created and run() awaits receive()
AckReceived(r) ==
    /\ pc[r] = "ack"
    /\ connOpen
    /\ ping' = [ping EXCEPT ![r] = "loop"]
    /\ handler_task' = [handler_task EXCEPT ![r] = 0]
    /\ pc' = [pc EXCEPT ![r] = "listen"]
    /\ UNCHANGED <<running, connOpen, subscribed, txid, txid_lock, sent, attempts,
                   ended, subTxid, pingTxid, tasks, sender>>
    /\ UNCHANGED storeVars
    /\ UNCHANGED batchVars

\* workers.py:63-70 and :91-94: no frame within the timeout
AckTimeout(r) ==
    /\ pc[r] = "ack"
    /\ connOpen' = disconnect(connOpen)
    /\ pc' = [pc EXCEPT ![r] = "raised"]
    /\ ended' = [ended EXCEPT ![r] = "ack_timeout"]
    /\ UNCHANGED <<running, subscribed, txid, txid_lock, sent, attempts, subTxid,
                   handler_task, ping, pingTxid, tasks, sender>>
    /\ UNCHANGED storeVars
    /\ UNCHANGED batchVars

\* workers.py:64-67: the connection is closed while run() waits for the
\* first frame; ConnectionError or ConnectionClosed ends run()
AckClosed(r) ==
    /\ pc[r] = "ack"
    /\ ~connOpen
    /\ pc' = [pc EXCEPT ![r] = "raised"]
    /\ ended' = [ended EXCEPT ![r] = "closed"]
    /\ UNCHANGED <<running, connOpen, subscribed, txid, txid_lock, sent, attempts,
                   subTxid, handler_task, ping, pingTxid, tasks, sender>>
    /\ UNCHANGED storeVars
    /\ UNCHANGED batchVars

\* workers.py:101-103: a frame is received and a task created for it
Receive(r, message) ==
    /\ pc[r] = "listen"
    /\ connOpen
    /\ Len(tasks) < MaxTasks
    /\ tasks' = Append(tasks, [frame |-> message, status |-> "pending", owner |-> r])
    /\ handler_task' = [handler_task EXCEPT ![r] = Len(tasks) + 1]
    /\ attempts' = [attempts EXCEPT ![r] = 0]
    /\ UNCHANGED <<running, connOpen, subscribed, txid, txid_lock, sent, pc, ended,
                   subTxid, ping, pingTxid, sender>>
    /\ UNCHANGED storeVars
    /\ UNCHANGED batchVars

\* workers.py:104-109: receive() raises ConnectionError or ConnectionClosed;
\* a reconnect episode starts with its first await connect()
ReceiveClosed(r) ==
    /\ pc[r] = "listen"
    /\ ~connOpen
    /\ attempts' = [attempts EXCEPT ![r] = 0]
    /\ pc' = [pc EXCEPT ![r] = "reconnect"]
    /\ UNCHANGED <<running, connOpen, subscribed, txid, txid_lock, sent, ended,
                   subTxid, handler_task, ping, pingTxid, tasks, sender>>
    /\ UNCHANGED storeVars
    /\ UNCHANGED batchVars

\* workers.py:123-125 then :99-101: any other error of receive() is logged;
\* run() sleeps and awaits receive() again, with nothing of the handler changed
ReceiveError(r) ==
    /\ pc[r] = "listen"
    /\ UNCHANGED sessionVars
    /\ UNCHANGED sender
    /\ UNCHANGED storeVars
    /\ UNCHANGED batchVars

\* workers.py:109-112 then :99-101: connect() succeeds; run() leaves the
\* retry loop and awaits receive() on the new connection
ReconnectOk(r) ==
    /\ pc[r] = "reconnect"
    /\ connOpen' = TRUE
    /\ subscribed' = FALSE
    /\ attempts' = [attempts EXCEPT ![r] = @ + 1]
    /\ pc' = [pc EXCEPT ![r] = "listen"]
    /\ UNCHANGED <<running, txid, txid_lock, sent, ended, subTxid, handler_task, ping,
                   pingTxid, tasks, sender>>
    /\ UNCHANGED storeVars
    /\ UNCHANGED batchVars

\* workers.py:113-115: connect() raises ConnectionError; run() sleeps
ReconnectFail(r) ==
    /\ pc[r] = "reconnect"
    /\ attempts' = [attempts EXCEPT ![r] = @ + 1]
    /\ pc' = [pc EXCEPT ![r] = "reconnect_sleep"]
    /\ UNCHANGED <<running, connOpen, subscribed, txid, txid_lock, sent, ended,
                   subTxid, handler_task, ping, pingTxid, tasks, sender>>
    /\ UNCHANGED storeVars
    /\ UNCHANGED batchVars

\* workers.py:115 then :107-109 or :116-118 and :126-129
ReconnectSleepDone(r) ==
    /\ pc[r] = "reconnect_sleep"
    /\ IF RetriesLeft(attempts[r])
       THEN /\ pc' = [pc EXCEPT ![r] = "reconnect"]
            /\ UNCHANGED <<running, ended, handler_task, ping, pingTxid, tasks>>
       ELSE Terminate(r, "exhausted")
    /\ UNCHANGED <<connOpen, subscribed, txid, txid_lock, sent, attempts, subTxid,
                   sender>>
    /\ UNCHANGED storeVars
    /\ UNCHANGED batchVars

\* workers.py:119-121 with :42-47: KeyboardInterrupt; disconnect() awaits
\* connection.close() when the connection is open
Interrupt(r) ==
    /\ pc[r] = "listen"
    /\ IF connOpen
       THEN /\ pc' = [pc EXCEPT ![r] = "closing"]
            /\ UNCHANGED <<running, ended, handler_task, ping, pingTxid, tasks>>
       ELSE Terminate(r, "interrupt")
    /\ attempts' = [attempts EXCEPT ![r] = 0]
    /\ UNCHANGED <<connOpen, subscribed, txid, txid_lock, sent, subTxid, sender>>
    /\ UNCHANGED storeVars
    /\ UNCHANGED batchVars

\* workers.py:44-45 then :122 and :126-129
CloseDone(r) ==
    /\ pc[r] = "closing"
    /\ connOpen' = FALSE
    /\ Terminate(r, "interrupt")
    /\ UNCHANGED <<subscribed, txid, txid_lock, sent, attempts, subTxid, sender>>
    /\ UNCHANGED storeVars
    /\ UNCHANGED batchVars

\* workers.py:132-141 with :49-54: one cycle of the ping task, up to
\* await connection.send (or the next sleep)
PingCycle(r) ==
    /\ ping[r] = "loop"
    /\ (running /\ connOpen) => txid < MaxTxid
    /\ IF ~running
       THEN /\ ping' = [ping EXCEPT ![r] = "exited"]
            /\ UNCHANGED <<txid, pingTxid>>
       ELSE IF ~connOpen
       THEN UNCHANGED <<ping, txid, pingTxid>>
       ELSE /\ txid' = AllocateTxid
            /\ pingTxid' = [pingTxid EXCEPT ![r] = AllocateTxid]
            /\ ping' = [ping EXCEPT ![r] = "write"]
    /\ UNCHANGED <<running, connOpen, subscribed, txid_lock, sent, pc, attempts,
                   ended, subTxid, handler_task, tasks, sender>>
    /\ UNCHANGED storeVars
    /\ UNCHANGED batchVars

\* workers.py:55 then :142-149: the ping frame is written, or the write
\* raises and the error is logged; the task sleeps
PingWrite(r) ==
    /\ ping[r] = "write"
    /\ sent' = TransportWrite([type |-> "ping", txid |-> pingTxid[r]])
    /\ pingTxid' = [pingTxid EXCEPT ![r] = 0]
    /\ ping' = [ping EXCEPT ![r] = "loop"]
    /\ UNCHANGED <<running, connOpen, subscribed, txid, txid_lock, pc, attempts,
                   ended, subTxid, handler_task, tasks, sender>>
    /\ UNCHANGED storeVars
    /\ UNCHANGED batchVars

\* workers.py:103 and :151-182: a dispatch task runs; handle_message awaits
\* nothing, so it runs to its end in one step
RunTask(i) ==
    /\ tasks[i].status = "pending"
    /\ LET r == handle_message(tasks[i].frame, markets) IN
       /\ markets' = r.markets
       /\ tasks' = [tasks EXCEPT ![i].status =
                       IF r.raised = "none" THEN "done" ELSE r.raised]
    /\ UNCHANGED <<running, connOpen, subscribed, txid, txid_lock, sent, pc, attempts,
                   ended, subTxid, handler_task, ping, pingTxid, sender>>
    /\ UNCHANGED <<index_exists, bulk, dbOp>>
    /\ UNCHANGED batchVars

\* the peer or the network closes the connection
ConnectionLost ==
    /\ connOpen
    /\ connOpen' = FALSE
    /\ UNCHANGED <<running, subscribed, txid, txid_lock, sent, pc, attempts, ended,
                   subTxid, handler_task, ping, pingTxid, tasks, sender>>
    /\ UNCHANGED storeVars
    /\ UNCHANGED batchVars

Next ==
    \/ \E r \in Runs : CallRun(r)
    \/ \E r \in Runs : ConnectOk(r)
    \/ \E r \in Runs : ConnectFail(r)
    \/ \E r \in Runs : SubscribeWrite(r)
    \/ \E r \in Runs : AckReceived(r)
    \/ \E r \in Runs : AckTimeout(r)
    \/ \E r \in Runs : AckClosed(r)
    \/ \E r \in Runs, message \in SessionFrames : Receive(r, message)
    \/ \E r \in Runs : ReceiveClosed(r)
    \/ \E r \in Runs : ReceiveError(r)
    \/ \E r \in Runs : ReconnectOk(r)
    \/ \E r \in Runs : ReconnectFail(r)
    \/ \E r \in Runs : ReconnectSleepDone(r)
    \/ \E r \in Runs : Interrupt(r)
    \/ \E r \in Runs : CloseDone(r)
    \/ \E r \in Runs : PingCycle(r)
    \/ \E r \in Runs : PingWrite(r)
    \/ \E i \in 1..Len(tasks) : RunTask(i)
    \/ ConnectionLost

Spec == Init /\ [][Next]_vars

(***************************************************************************)
(* SendSpec: concurrent callers of send() on the handler's connection      *)
(***************************************************************************)

\* the tasks that call send(): run() for the subscribe frame, ping()
Senders == {"subscribe", "ping"}

\* transaction ids the callers may use up
MaxSendTxid == 4

SendInit ==
    /\ IdleSession
    /\ IdleBatch
    /\ sender = [s \in Senders |-> [pc |-> "idle", txid |-> 0]]
    /\ markets = {}
    /\ index_exists = FALSE
    /\ bulk = 0
    /\ dbOp = NoOp

\* workers.py:37-40: the handler connects
SendConnect ==
    /\ ~connOpen
    /\ connOpen' = TRUE
    /\ UNCHANGED <<running, subscribed, txid, txid_lock, sent, pc, attempts, ended,
                   subTxid, handler_task, ping, pingTxid, tasks, sender>>
    /\ UNCHANGED storeVars
    /\ UNCHANGED batchVars

\* workers.py:49-54: send() is called; it raises ConnectionError, or takes
\* the lock, allocates the txid, formats the frame and releases the lock, up
\* to await connection.send
SendAllocate(s) ==
    /\ sender[s].pc = "idle"
    /\ txid < MaxSendTxid
    /\ IF ~connOpen
       THEN UNCHANGED <<txid, txid_lock, sender>>
       ELSE /\ txid' = AllocateTxid
            /\ txid_lock' = None
            /\ sender' = [sender EXCEPT ![s] = [pc |-> "write", txid |-> AllocateTxid]]
    /\ UNCHANGED <<running, connOpen, subscribed, sent, pc, attempts, ended, subTxid,
                   handler_task, ping, pingTxid, tasks>>
    /\ UNCHANGED storeVars
    /\ UNCHANGED batchVars

\* workers.py:55: connection.send takes the frame or raises
SendWrite(s) ==
    /\ sender[s].pc = "write"
    /\ sent' = TransportWrite([type |-> s, txid |-> sender[s].txid])
    /\ sender' = [sender EXCEPT ![s] = [pc |-> "idle", txid |-> 0]]
    /\ UNCHANGED <<running, connOpen, subscribed, txid, txid_lock, pc, attempts,
                   ended, subTxid, handler_task, ping, pingTxid, tasks>>
    /\ UNCHANGED storeVars
    /\ UNCHANGED batchVars

SendNext ==
    \/ SendConnect
    \/ \E s \in Senders : SendAllocate(s)
    \/ \E s \in Senders : SendWrite(s)
    \/ ConnectionLost

SendSpec == SendInit /\ [][SendNext]_vars

(***************************************************************************)
(* Claims about the session (Spec) and about send() (SendSpec)             *)
(***************************************************************************)

Active(r) == pc[r] \notin {"idle", "done", "raised"}

TasksOf(r) == {i \in 1..Len(tasks) : tasks[i].owner = r}

\* C1: after a successful reconnect the session has written a subscribe
\* frame on the new connection before it receives on it.
C1_ResubscribedAfterReconnect ==
    \A r \in Runs : (pc[r] = "listen" /\ connOpen) => subscribed

\* C2: a reconnect episode makes at most 5 connect attempts, one after
\* another; a successful attempt ends the episode in Listening; after 5
\* failed attempts run() ends with the keepalive task cancelled and the
\* running flag cleared.
C2_BoundedReconnect ==
    /\ [](\A r \in Runs :
            /\ attempts[r] <= 5
            /\ pc[r] = "reconnect" => attempts[r] < 5
            /\ pc[r] = "reconnect_sleep" => attempts[r] >= 1
            /\ ended[r] = "exhausted" =>
                  (attempts[r] = 5 /\ pc[r] = "done" /\ ping[r] \notin LivePing))
    /\ [][\A r \in Runs :
            /\ (pc[r] = "reconnect" /\ pc'[r] # "reconnect") =>
                  /\ attempts'[r] = attempts[r] + 1
                  /\ \/ connOpen' /\ pc'[r] = "listen"
                     \/ ~connOpen' /\ pc'[r] = "reconnect_sleep"
            /\ (pc[r] = "reconnect_sleep" /\ pc'[r] # "reconnect_sleep") =>
                  IF attempts[r] < 5
                  THEN pc'[r] = "reconnect" /\ running'
                  ELSE pc'[r] = "done" /\ ended'[r] = "exhausted" /\ ~running'
         ]_vars

\* one invocation ended after 5 failed attempts and a later one is
\* Listening again after 4 failed attempts and a 5th that succeeded
C2_Witness ==
    \E r, q \in Runs :
        /\ ended[r] = "exhausted"
        /\ attempts[r] = 5
        /\ pc[q] = "listen"
        /\ attempts[q] = 5
        /\ connOpen

\* C3: no other task allocates a txid between a sender's allocation and its
\* transport write, and the frames reach the transport in strictly
\* increasing txid order.
C3_AllocAndSendAtomic ==
    /\ \A s \in Senders : sender[s].pc = "write" => sender[s].txid = txid
    /\ \A i, j \in 1..Len(sent) : i < j => sent[i].txid < sent[j].txid

\* C4: once run() has terminated, its keepalive task is cancelled and none
\* of the dispatch tasks it created is left to run.
C4_TerminationCancelsTasks ==
    \A r \in Runs :
        (pc[r] = "done" /\ ended[r] \in {"exhausted", "interrupt"})
        => /\ ping[r] \notin LivePing
           /\ \A i \in TasksOf(r) : tasks[i].status # "pending"

\* C5: when no frame arrives within the timeout after the subscribe frame
\* was sent, run() raises without entering Listening: it has created no
\* keepalive task and no dispatch task, and the connection is closed
\* (until a later invocation connects).
C5_AckTimeoutIsFatal ==
    \A r \in Runs :
        ended[r] = "ack_timeout"
        => /\ pc[r] = "raised"
           /\ ping[r] = "none"
           /\ TasksOf(r) = {}
           /\ (\A q \in Runs : q > r => pc[q] \in {"idle", "connect", "done", "raised"}
                                        /\ ended[q] \in {"none", "rejected", "connect_failed"})
              => ~connOpen

\* run() raised on the ack timeout after its subscribe frame was written
C5_Witness ==
    \E r \in Runs :
        /\ ended[r] = "ack_timeout"
        /\ \E i \in 1..Len(sent) : sent[i].type = "subscribe"
        /\ ~connOpen

\* C6: at every moment at most one invocation of run() is past the guard
\* and not ended and at most one keepalive task is alive; an invocation
\* that finds the handler running returns at once and changes nothing.
C6_SingleSession ==
    /\ [](/\ Cardinality({r \in Runs : Active(r)}) <= 1
          /\ Cardinality({r \in Runs : ping[r] \in LivePing}) <= 1)
    /\ [][\A r \in Runs :
            (pc[r] = "idle" /\ pc'[r] # "idle" /\ running)
            => /\ pc'[r] = "done"
               /\ ended'[r] = "rejected"
               /\ UNCHANGED <<running, connOpen, subscribed, txid, sent, subTxid,
                              handler_task, ping, pingTxid, tasks, markets>>
         ]_vars

\* run() was called and returned at the guard while another invocation was
\* Listening with its keepalive task alive
C6_Witness ==
    \E r, q \in Runs :
        /\ ended[r] = "rejected"
        /\ pc[q] = "listen"
        /\ ping[q] \in LivePing
        /\ running

\* the txids of the frames send() has allocated a txid for and not yet
\* handed to the transport
InFlight ==
    {<<"subscribe", r, subTxid[r]>> : r \in {q \in Runs : subTxid[q] # 0}}
    \cup {<<"ping", r, pingTxid[r]>> : r \in {q \in Runs : pingTxid[q] # 0}}

\* C16: every subscribe and ping frame carries a txid of its own: each
\* allocation takes the txid after the last one allocated, and the txids of
\* the frames written and of the frames about to be written are allocated
\* ones and pairwise different, however run() and ping() interleave.
C16_FreshTxid ==
    /\ [](/\ \A j, k \in 1..Len(sent) : j # k => sent[j].txid # sent[k].txid
          /\ \A k \in 1..Len(sent) : sent[k].txid \in 1..txid
          /\ \A m \in InFlight :
                /\ m[3] \in 1..txid
                /\ \A k \in 1..Len(sent) : sent[k].txid # m[3]
                /\ \A n \in InFlight : n # m => n[3] # m[3])
    /\ [][txid' # txid =>
            /\ txid' = txid + 1
            /\ \E m \in InFlight' : m \notin InFlight /\ m[3] = txid'
         ]_vars

\* a subscribe frame and two pings written with the txids 1, 2 and 3
C16_Witness ==
    /\ Len(sent) = 3
    /\ sent[1] = [type |-> "subscribe", txid |-> 1]
    /\ sent[2] = [type |-> "ping", txid |-> 2]
    /\ sent[3] = [type |-> "ping", txid |-> 3]

\* C17: only run() opens the connection; ping() starts a send only while
\* running is set and the connection is open, leaves the connection, the
\* session and the flag as they are, writes a ping frame only if the
\* connection is still open and goes on to its next cycle when the write
\* fails.
C17_KeepaliveOnlyPings ==
    [][/\ (~connOpen /\ connOpen') =>
              \E r \in Runs : pc[r] \in {"connect", "reconnect"} /\ pc'[r] # pc[r]
       /\ \A r \in Runs :
              (ping[r] = "loop" /\ ping'[r] = "write") =>
                  /\ running
                  /\ connOpen
                  /\ UNCHANGED <<running, connOpen, sent, pc, ended>>
       /\ \A r \in Runs :
              (ping[r] = "write" /\ ping'[r] = "loop") =>
                  /\ UNCHANGED <<running, connOpen, pc, ended>>
                  /\ Active(r)
                  /\ sent' = IF connOpen
                             THEN Append(sent, [type |-> "ping", txid |-> pingTxid[r]])
                             ELSE sent
       /\ (Len(sent') > Len(sent) /\ sent'[Len(sent')].type = "ping") =>
              running /\ connOpen
      ]_vars

\* the first session has lost the connection, the ping with txid 2 was
\* allocated and never written, and the ping task and the session go on
C17_Witness ==
    /\ pc[1] \in {"listen", "reconnect", "reconnect_sleep"}
    /\ ping[1] = "loop"
    /\ pingTxid[1] = 0
    /\ txid = 2
    /\ sent = <<[type |-> "subscribe", txid |-> 1]>>
    /\ ~connOpen
    /\ running

\* C20: when no invocation of run() is under way -- each has returned or
\* raised, or was never made -- running is false.
C20_RunningClearedWhenRunEnds ==
    (\A r \in Runs : ~Active(r)) => ~running

(***************************************************************************)
(* BatchSpec: get_embeddings, one iteration of its for loop per step       *)
(***************************************************************************)

\* market.py:39
THRESHOLD == 30000

\* longest list of markets passed to get_embeddings
MaxMarkets == 3

\* titles told apart by their length in tokens
BatchTitles == {"empty", "one", "half", "full", "over"}

\* the markets of the list; get_embeddings reads nothing but the title
BatchMarket == [title : BatchTitles]

\* market.py:46, len(shtuff.encode(market.title))
these_tokens(market) ==
    CASE market.title = "empty" -> 0
      [] market.title = "one" -> 1
      [] market.title = "half" -> THRESHOLD \div 2
      [] market.title = "full" -> THRESHOLD
      [] market.title = "over" -> THRESHOLD + 1

\* the vector the embedding model gives a text
Vector(text) == <<"vector", text>>

\* ai.py:21 and market.py:30, embeddings_create(...).data: one vector for
\* each text of input, in the order of input
embeddings_create(input) == [k \in 1..Len(input) |-> Vector(input[k])]

\* market.py:29-35
get_embeddings_single(batch) ==
    embeddings_create([k \in 1..Len(batch) |-> batch[k].title])

\* a slice that loses its first element
Slice_OneShort(list, lo, hi) == SubSeq(list, lo + 2, hi)

\* the Python slice list[lo:hi], indices counted from 0
Slice(list, lo, hi) == SubSeq(list, lo + 1, hi)

\* market.py:47, a flush that closes the batch one market too late
BudgetExceeded_Late(market) == culmulative_tokens > THRESHOLD

\* market.py:47
BudgetExceeded(market) == culmulative_tokens + these_tokens(market) > THRESHOLD

\* a flush that forgets to count the market that opens the next batch
CountAfterFlush_Zero(market) == 0

\* market.py:50 and :52 after a flush: the count restarts at 0 and the market
\* that did not fit is counted into the next batch
CountAfterFlush(market) == 0 + these_tokens(market)

BatchInit ==
    /\ IdleSession
    /\ sender = <<>>
    /\ markets = {}
    /\ index_exists = FALSE
    /\ bulk = 0
    /\ dbOp = NoOp
    /\ market_list \in UNION {[1..n -> BatchMarket] : n \in 0..MaxMarkets}
    /\ loop_i = 0
    /\ ii = 0
    /\ culmulative_tokens = 0
    /\ calls = <<>>
    /\ res = <<>>
    /\ epc = "loop"

\* market.py:43-52, one iteration of the for loop
Iterate ==
    /\ epc = "loop"
    /\ loop_i < Len(market_list)
    /\ LET market == market_list[loop_i + 1]
           batch == Slice(market_list, ii, loop_i) IN
       IF BudgetExceeded(market)
       THEN /\ calls' = Append(calls, batch)
            /\ res' = res \o get_embeddings_single(batch)
            /\ culmulative_tokens' = CountAfterFlush(market)
            /\ ii' = loop_i
       ELSE /\ culmulative_tokens' = culmulative_tokens + these_tokens(market)
            /\ UNCHANGED <<calls, res, ii>>
    /\ loop_i' = loop_i + 1
    /\ UNCHANGED <<market_list, epc>>
    /\ UNCHANGED <<sessionVars, storeVars, sender>>

\* market.py:53-56, the last flush, the assert and the return
Finish ==
    /\ epc = "loop"
    /\ loop_i = Len(market_list)
    /\ LET batch == Slice(market_list, ii, Len(market_list))
           flushed == ii < Len(market_list)
           result == IF flushed THEN res \o get_embeddings_single(batch) ELSE res IN
       /\ calls' = IF flushed THEN Append(calls, batch) ELSE calls
       /\ res' = result
       /\ epc' = IF Len(result) = Len(market_list) THEN "returned" ELSE "assert_failed"
    /\ UNCHANGED <<market_list, loop_i, ii, culmulative_tokens>>
    /\ UNCHANGED <<sessionVars, storeVars, sender>>

BatchNext ==
    \/ Iterate
    \/ Finish

\* get_embeddings is synchronous code: once called it runs to its end
BatchSpec == BatchInit /\ [][BatchNext]_vars /\ WF_vars(BatchNext)

(***************************************************************************)
(* Claims about get_embeddings (BatchSpec)                                 *)
(***************************************************************************)

RECURSIVE Concat(_)
\* the batches of a sequence of calls, joined in call order
Concat(batches) ==
    IF batches = <<>> THEN <<>> ELSE Head(batches) \o Concat(Tail(batches))

RECURSIVE Tokens(_)
\* the tokens of the titles of a batch, summed
Tokens(batch) ==
    IF batch = <<>> THEN 0 ELSE these_tokens(Head(batch)) + Tokens(Tail(batch))

\* a market whose title alone is over the threshold
Oversized(market) == these_tokens(market) > THRESHOLD

Ended == epc \in {"returned", "assert_failed"}

\* C12: the batches passed to get_embeddings_single are consecutive spans of
\* the input: joined in call order they are the markets up to the one that
\* opens the next batch and, at the end, the whole input; get_embeddings
\* returns one vector for each market, in input order.
C12_BatchesPartitionInput ==
    /\ epc = "loop" => Concat(calls) = Slice(market_list, 0, ii)
    /\ epc # "assert_failed"
    /\ epc = "returned" =>
          /\ Concat(calls) = market_list
          /\ Len(res) = Len(market_list)
          /\ \A k \in 1..Len(market_list) : res[k] = Vector(market_list[k].title)

C12_Witness ==
    /\ epc = "returned"
    /\ Len(market_list) >= 3
    /\ Len(calls) >= 2
    /\ \A k \in 1..Len(calls) : calls[k] # <<>>

\* C13: no batch holds more tokens than the threshold, except a batch of one
\* market whose title alone is over the threshold.
C13_BatchWithinBudget ==
    \A k \in 1..Len(calls) :
        \/ Tokens(calls[k]) <= THRESHOLD
        \/ Len(calls[k]) = 1 /\ Oversized(calls[k][1])

C13_Witness ==
    /\ Ended
    /\ \E k \in 1..Len(calls) : Len(calls[k]) >= 2 /\ Tokens(calls[k]) = THRESHOLD
    /\ \E k \in 1..Len(calls) : Len(calls[k]) = 1 /\ Oversized(calls[k][1])

\* C14: get_embeddings ends for every input, oversized markets included, and
\* at its end every oversized market has been passed to
\* get_embeddings_single as a batch of its own.
C14_OversizedFlushedAlone ==
    /\ <>Ended
    /\ [](Ended =>
            /\ \A k \in 1..Len(calls) :
                  (\E j \in 1..Len(calls[k]) : Oversized(calls[k][j]))
                      => Len(calls[k]) = 1
            /\ Cardinality({k \in 1..Len(calls) :
                              Len(calls[k]) = 1 /\ Oversized(calls[k][1])})
                 = Cardinality({k \in 1..Len(market_list) : Oversized(market_list[k])}))

C14_Witness ==
    /\ Ended
    /\ Len(market_list) >= 3
    /\ ~Oversized(market_list[1])
    /\ Oversized(market_list[2])
    /\ calls[2] = <<market_list[2]>>

\* C19: every call of get_embeddings_single carries at least one market,
\* also when the first market alone is over the threshold.
C19_NoEmptyBatch ==
    \A k \in 1..Len(calls) : calls[k] # <<>>

====
